---- MODULE Spec2Model ----
(***************************************************************************)
(* Model of the allocation and batching engine of the BSV address          *)
(* generator (src/bsv_address_generator/core/distribution.py).             *)
(*                                                                         *)
(* Amounts.  The code computes with decimal.Decimal values expressed in    *)
(* BSV.  The model counts in satoshis: total_amount, arg_min, arg_max and  *)
(* the batch amounts are whole satoshis, and every Decimal the             *)
(* distribution functions derive from them is held as an integer number of *)
(* 1/Units(c) satoshi, c being the resolved address count of the call.     *)
(* Units(c) = 400 * c * (c + 1) makes every quotient and product of the    *)
(* code (total / c, total / (c + 1), * 0.25, * 0.6, * 0.8, * 1.1, * 1.3,   *)
(* * 1.5, * 1.75, * 1.8, * 2.0, dust * 1.1) an exact integer, so sums and  *)
(* comparisons are those of exact arithmetic.  The Decimal context rounds  *)
(* at the 28th significant digit; that rounding is far below one unit for  *)
(* the totals of the model and is not represented.                         *)
(*                                                                         *)
(* Randomness.  random.random() is an input.  In the allocation loops it   *)
(* is a dyadic fraction k / FracSteps with k < FracSteps (every such value *)
(* is a float that random() returns and that str() prints exactly), or,    *)
(* for k = FracSteps, the largest float below 1.  In the batching walk the *)
(* input is the privacy factor 0.6 + random() * 0.35 itself, in thousandths*)
(* (every float of [0.6, 0.95] is the result for some value of random()).  *)
(*                                                                         *)
(* Derivation sessions (core/derivation.py, utils/state_manager.py,        *)
(* ui/input_handlers.py, main.py).  One session is one run of main():      *)
(* get_starting_index, then derive_addresses; the state file outlives the  *)
(* session.  An xpub string is identified with the integer its SHA-256     *)
(* digest denotes.  Python integers are unbounded and the derivation limit *)
(* is 2^31 - 1, so an index i is held as i - IndexBase: sums and           *)
(* comparisons of indices are unchanged, and the index 2^31 that           *)
(* get_starting_index returns after the last index is representable.  The  *)
(* BSV SDK is outside the repository: Xpub(...) raises for a malformed     *)
(* string and ckd(i) raises for the children listed in bad_children, an    *)
(* input fixed at the start.                                               *)
(***************************************************************************)
EXTENDS Integers, Sequences, FiniteSets, TLC

\* ---------------------------------------------------------------- bounds
MaxTotalSteps == 30
TotalStride == 143
MaxCount == 5
FracBits == 1
MaxArgSteps == 3
ArgStride == 650
MaxItems == 3
MaxBatchAmount == 4
BatchCeiling == 3
FactorStride == 175
MaxSessions == 3
MaxDeriveCount == 2
LimitGap == 1

\* ------------------------------------------------------- program constants
BSV_DUST_LIMIT == 546
PRIVACY_MIN == 600
PRIVACY_SPAN == 350
MAX_DERIVATION_INDEX == 2147483647
DERIVATION_WARNING_THRESHOLD == 95
FINGERPRINT_MODULUS == 1000000

VARIABLES
    op,             \* the entry point called
    total_amount,   \* argument: total, in satoshis
    address_count,  \* argument: requested count
    arg_min,        \* argument min_amount of distribute_amounts_random, satoshis
    arg_max,        \* argument max_amount of distribute_amounts_random, satoshis
    pc,             \* "start", "loop", "done" (returned) or "raised"
    units,          \* units per satoshi of the scaled values below
    actual_count,   \* the count the call resolved to
    min_amount,     \* lower bound in use (scaled)
    max_amount,     \* upper bound in use (scaled)
    amounts,        \* the list built so far (scaled)
    remaining,      \* local `remaining` of the allocation loops (scaled)
    addresses,          \* argument of create_address_batches: the address list
    batch_amounts,      \* argument `amounts` of create_address_batches, satoshis
    max_bsv_per_batch,  \* argument, satoshis
    randomize,          \* argument
    combined_data,      \* the zipped, possibly shuffled, pairs
    position,           \* number of pairs of combined_data already walked
    batches,
    current_batch_addresses,
    current_batch_amounts,
    current_batch_total,
    batch_number,
    current_target_size, \* in thousandths of a satoshi
    arg_max_addresses,      \* argument of calculate_optimal_address_count: <<>> is None
    arg_min_amount,     \* argument min_amount of validate_distribution_feasibility,
                        \* satoshis: <<>> is None
    is_ok,              \* is_feasible / is_valid returned by the validators
    quality,            \* <<>> or <<the metrics analyze_distribution_quality returned>>
    state_file,         \* derivation_state.json: <<>> (absent) or <<the saved state>>
    bad_children,       \* the (xpub, base path, index) whose ckd raises
    xpub_str,           \* inputs of the session
    derive_count,
    base_path,
    start_index,        \* what get_starting_index returned
    derive_result,      \* "pending", "None" or "list": what derive_addresses returned
    new_indices,        \* the indices of the list derive_addresses built
    derived,            \* history: the (xpub, base path, index) derived so far
    rederived,          \* history: some triple was derived a second time
    declined,           \* history: the user once answered other than "y"
    sessions            \* number of the session

distvars == <<total_amount, address_count, arg_min, arg_max, units,
              actual_count, min_amount, max_amount, amounts, remaining>>

batchargs == <<addresses, batch_amounts, max_bsv_per_batch, randomize>>

batchlocals == <<combined_data, position, batches, current_batch_addresses,
                 current_batch_amounts, current_batch_total, batch_number,
                 current_target_size>>

fnargs == <<arg_max_addresses, arg_min_amount>>

sessionvars == <<state_file, bad_children, xpub_str, derive_count, base_path,
                 start_index, derive_result, new_indices, derived, rederived,
                 declined, sessions>>

vars == <<op, pc, distvars, batchargs, batchlocals, fnargs, quality, sessionvars, is_ok>>

\* ---------------------------------------------------------------- helpers
Min(a, b) == IF a <= b THEN a ELSE b

Max(a, b) == IF a >= b THEN a ELSE b

RECURSIVE SumSeq(_)
SumSeq(s) == IF s = <<>> THEN 0 ELSE s[1] + SumSeq(Tail(s))

Units(c) == 400 * c * (c + 1)

\* Decimal.quantize(Decimal("0.00000001"), rounding=ROUND_DOWN): truncation
\* toward zero to a whole satoshi.
quantize(x, u) ==
    IF x >= 0 THEN (x \div u) * u ELSE 0 - (((0 - x) \div u) * u)

\* dust_limit_bsv * Decimal("1.1"), in units of 1/u satoshi (u a multiple of 10)
get_minimum_viable_amount(u) == (BSV_DUST_LIMIT * 11 * u) \div 10

\* mutant: max_addresses is not applied
calculate_optimal_address_count_unclamped(total, max_addresses) ==
    (total * 10) \div get_minimum_viable_amount(10)

\* mutant: the quotient rounded up instead of truncated
calculate_optimal_address_count_ceil(total, max_addresses) ==
    LET mv == get_minimum_viable_amount(10)
        max_possible == (total * 10 + mv - 1) \div mv
    IN  IF max_addresses # <<>>
        THEN Min(max_possible, max_addresses[1])
        ELSE max_possible

\* int(total_amount / min_viable_amount); max_addresses is <<>> for None
calculate_optimal_address_count(total, max_addresses) ==
    LET max_possible == (total * 10) \div get_minimum_viable_amount(10)
    IN  IF max_addresses # <<>>
        THEN Min(max_possible, max_addresses[1])
        ELSE max_possible

\* mutant: the caller's min_amount is ignored
validate_distribution_feasibility_ignores_min(total, count, min_arg, u) ==
    IF get_minimum_viable_amount(u) * count > total * u
    THEN [is_feasible |-> FALSE,
          suggested_count |-> calculate_optimal_address_count(total, <<>>)]
    ELSE [is_feasible |-> TRUE, suggested_count |-> count]

\* mutant: the optimal count is suggested also for a feasible request
validate_distribution_feasibility_always_optimal(total, count, min_arg, u) ==
    LET min_viable == get_minimum_viable_amount(u)
        given == IF min_arg = <<>> \/ min_arg = <<0>> THEN min_viable ELSE min_arg[1]
        effective_min == Max(given, min_viable)
    IN  [is_feasible |-> effective_min * count <= total * u,
         suggested_count |-> calculate_optimal_address_count(total, <<>>)]

\* min_arg is <<>> for None, else <<m>> with m scaled by u
validate_distribution_feasibility(total, count, min_arg, u) ==
    LET min_viable == get_minimum_viable_amount(u)
        given == IF min_arg = <<>> \/ min_arg = <<0>> THEN min_viable ELSE min_arg[1]
        effective_min == Max(given, min_viable)
        min_total_required == effective_min * count
    IN  IF min_total_required > total * u
        THEN [is_feasible |-> FALSE,
              suggested_count |-> calculate_optimal_address_count(total, <<>>)]
        ELSE [is_feasible |-> TRUE, suggested_count |-> count]


\* total_amount / address_count in units of 1/Units(c) satoshi (exact)
avg_amount_of(total, c) == (total * Units(c)) \div c

\* mutant: the conservative maximum is applied whatever the worst-case remainder
_validate_and_adjust_bounds_always_conservative(total, c, min_in, max_in, avg_amount) ==
    LET u == Units(c)
        total_u == total * u
        min1 == IF min_in * c > total_u THEN (total_u * 8) \div (10 * c) ELSE min_in
        conservative_max == total_u \div (c + 1)
        max2 == Min(max_in, (conservative_max * 13) \div 10)
        min3 == IF min1 * (c - 1) >= total_u THEN (total_u * 6) \div (10 * c) ELSE min1
        spread == (avg_amount * 3) \div 10
    IN  IF max2 * 10 <= min3 * 11
        THEN [min_amount |-> Max(avg_amount - spread, get_minimum_viable_amount(u)),
              max_amount |-> avg_amount + spread]
        ELSE [min_amount |-> min3, max_amount |-> max2]

_validate_and_adjust_bounds(total, c, min_in, max_in, avg_amount) ==
    LET u == Units(c)
        total_u == total * u
        \* total_amount * Decimal("0.8") / address_count
        min1 == IF min_in * c > total_u THEN (total_u * 8) \div (10 * c) ELSE min_in
        worst_case_for_others == max_in * (c - 1)
        worst_case_remainder == total_u - worst_case_for_others
        acceptable_max_remainder == max_in * 2
        conservative_max == total_u \div (c + 1)
        max2 == IF worst_case_remainder > acceptable_max_remainder
                THEN Min(max_in, (conservative_max * 13) \div 10)
                ELSE max_in
        adjusted_min_total == min1 * (c - 1)
        \* total_amount * Decimal("0.6") / address_count
        min3 == IF adjusted_min_total >= total_u THEN (total_u * 6) \div (10 * c) ELSE min1
        spread == (avg_amount * 3) \div 10
    IN  IF max2 * 10 <= min3 * 11
        THEN [min_amount |-> Max(avg_amount - spread, get_minimum_viable_amount(u)),
              max_amount |-> avg_amount + spread]
        ELSE [min_amount |-> min3, max_amount |-> max2]

\* mutant: the minimum is 25% of the average, without the min_viable floor
calculate_optimal_random_bounds_no_floor(total, count) ==
    LET v == validate_distribution_feasibility(total, count, <<>>, 10)
        c == IF v.is_feasible THEN count ELSE v.suggested_count
    IN  IF c = 0
        THEN [raised |-> TRUE, min_amount |-> 0, max_amount |-> 0,
              feasible_address_count |-> c]
        ELSE LET avg_amount == avg_amount_of(total, c)
                 b == _validate_and_adjust_bounds(
                          total, c, avg_amount \div 4,
                          (avg_amount * 7) \div 4, avg_amount)
             IN  [raised |-> FALSE, min_amount |-> b.min_amount,
                  max_amount |-> b.max_amount, feasible_address_count |-> c]

\* raised: Decimal division by zero at `total_amount / address_count`
calculate_optimal_random_bounds(total, count) ==
    LET v == validate_distribution_feasibility(total, count, <<>>, 10)
        c == IF v.is_feasible THEN count ELSE v.suggested_count
    IN  IF c = 0
        THEN [raised |-> TRUE, min_amount |-> 0, max_amount |-> 0,
              feasible_address_count |-> c]
        ELSE LET u == Units(c)
                 avg_amount == avg_amount_of(total, c)
                 min_from_avg == avg_amount \div 4
                 b == _validate_and_adjust_bounds(
                          total, c,
                          Max(get_minimum_viable_amount(u), min_from_avg),
                          (avg_amount * 7) \div 4,
                          avg_amount)
             IN  [raised |-> FALSE, min_amount |-> b.min_amount,
                  max_amount |-> b.max_amount, feasible_address_count |-> c]

\* ------------------------------------------------ distribute_amounts_equal
\* mutant: the truncation remainder goes to the last entry
equal_amounts_remainder_last(total, c) ==
    LET u == Units(c)
        amount_per_address == quantize((total * u) \div c, u)
        base == [i \in 1..c |-> amount_per_address]
    IN  [base EXCEPT ![c] = @ + (total * u - SumSeq(base))]

\* mutant: the truncation remainder is dropped
equal_amounts_no_remainder(total, c) ==
    [i \in 1..c |-> quantize((total * Units(c)) \div c, Units(c))]

\* the list built once actual_count is resolved (actual_count >= 1)
equal_amounts(total, c) ==
    LET u == Units(c)
        amount_per_address == quantize((total * u) \div c, u)
        base == [i \in 1..c |-> amount_per_address]
        remainder == total * u - SumSeq(base)
    IN  IF remainder > 0 THEN [base EXCEPT ![1] = @ + remainder] ELSE base

equal_resolve(total, count) ==
    validate_distribution_feasibility(total, count, <<>>, 10).suggested_count

\* ----------------------------------------------- random draw of one amount
\* actual_min + (actual_max - actual_min) * random_factor, quantized down;
\* k < FracSteps is the fraction k / FracSteps, k = FracSteps the largest
\* float below 1 (the value just under actual_max).
FracSteps == 2 ^ FracBits

random_amount(actual_min, actual_max, k, u) ==
    IF k < FracSteps
    THEN ((actual_min * FracSteps + (actual_max - actual_min) * k)
              \div (FracSteps * u)) * u
    ELSE (((actual_max + u - 1) \div u) - 1) * u

\* ----------------------------------------------- distribute_amounts_random
random_resolve(total, count, min_sat) ==
    LET m == Max(min_sat * 10, get_minimum_viable_amount(10))
    IN  validate_distribution_feasibility(total, count, <<m>>, 10).suggested_count

\* mutant: the comparison the other way round, average against twice the maximum
random_max_amount_inverted(total, c, max_sat) ==
    LET avg_amount == avg_amount_of(total, c)
        given == max_sat * Units(c)
    IN  IF avg_amount > given * 2 THEN (avg_amount * 18) \div 10 ELSE given

\* mutant: the caller's maximum is never tightened
random_max_amount_kept(total, c, max_sat) == max_sat * Units(c)

random_max_amount(total, c, max_sat) ==
    LET avg_amount == avg_amount_of(total, c)
        given == max_sat * Units(c)
    IN  IF given > avg_amount * 2 THEN (avg_amount * 18) \div 10 ELSE given

\* mutant: only the reserve for the remaining addresses caps the draw
random_loop_amount_uncapped(rem, min_a, max_a, remaining_addresses, k, u) ==
    LET actual_max == rem - min_a * remaining_addresses
    IN  IF actual_max <= min_a
        THEN min_a
        ELSE random_amount(min_a, actual_max, k, u)

random_loop_amount(rem, min_a, max_a, remaining_addresses, k, u) ==
    LET max_for_remaining == rem - min_a * remaining_addresses
        actual_max == Min(max_a, max_for_remaining)
        actual_min == min_a
    IN  IF actual_max <= actual_min
        THEN actual_min
        ELSE random_amount(actual_min, actual_max, k, u)

\* mutant: an entry at its minimum may give the shortfall
random_finish_donor_at_min(am, rem, min_a, u) ==
    LET min_viable == get_minimum_viable_amount(u)
        needed == min_viable - rem
        donors == {j \in 1..Len(am) : am[j] >= min_a}
    IN  IF rem < min_viable /\ donors # {}
        THEN LET d == CHOOSE j \in donors : \A j2 \in donors : j2 <= j
             IN  Append([am EXCEPT ![d] = @ - needed], rem + needed)
        ELSE Append(am, rem)

\* mutant: a final amount below min_viable is replaced by min_viable
random_finish_clamped(am, rem, min_a, u) ==
    Append(am, Max(rem, get_minimum_viable_amount(u)))

\* the backward reclaim for a final amount below min_viable, then the append
random_finish(am, rem, min_a, u) ==
    LET min_viable == get_minimum_viable_amount(u)
        needed == min_viable - rem
        donors == {j \in 1..Len(am) : am[j] > min_a + needed}
    IN  IF rem < min_viable /\ donors # {}
        THEN LET d == CHOOSE j \in donors : \A j2 \in donors : j2 <= j
             IN  Append([am EXCEPT ![d] = @ - needed], rem + needed)
        ELSE Append(am, rem)

\* ----------------------------------------- distribute_amounts_random_smart
smart_resolve(total, count, min_a, u) ==
    validate_distribution_feasibility(
        total, count, <<Max(min_a, get_minimum_viable_amount(u))>>, u).suggested_count

\* mutant: one address too few is reserved for (remaining_addresses - 2)
smart_loop_amount_short(rem, min_a, max_a, remaining_addresses, k, u) ==
    LET max_available == rem - min_a * (remaining_addresses - 2)
        actual_max == Min(max_a, max_available)
    IN  IF actual_max <= min_a
        THEN min_a
        ELSE random_amount(min_a, actual_max, k, u)

smart_loop_amount(rem, min_a, max_a, remaining_addresses, k, u) ==
    LET target_last_amount == (max_a * 11) \div 10
        min_for_remaining == min_a * (remaining_addresses - 1)
        max_available0 == rem - min_for_remaining
        max_to_leave_reasonable == Min(target_last_amount, (max_a * 3) \div 2)
        max_available == IF remaining_addresses = 2
                         THEN Min(max_available0, rem - max_to_leave_reasonable)
                         ELSE max_available0
        actual_min == min_a
        actual_max == Min(max_a, max_available)
    IN  IF actual_max <= actual_min
        THEN actual_min
        ELSE random_amount(actual_min, actual_max, k, u)

smart_final_amount(rem, u) ==
    LET min_viable == get_minimum_viable_amount(u)
    IN  IF rem < min_viable THEN min_viable ELSE rem


\* -------------------------------------------- validate_distribution_params
\* min_sat and max_sat in satoshis; the message is not None exactly when
\* is_valid is False
\* mutant: the check max_amount x count >= total is left out
validate_distribution_params_no_max_total(total, count, min_sat, max_sat) ==
    IF min_sat * 10 < get_minimum_viable_amount(10) THEN [is_valid |-> FALSE]
    ELSE IF max_sat <= min_sat THEN [is_valid |-> FALSE]
    ELSE IF max_sat >= total THEN [is_valid |-> FALSE]
    ELSE [is_valid |-> validate_distribution_feasibility(
                           total, count, <<min_sat * 10>>, 10).is_feasible]

validate_distribution_params(total, count, min_sat, max_sat) ==
    LET min_viable == get_minimum_viable_amount(10)
        max_total == max_sat * count
    IN  IF min_sat * 10 < min_viable THEN [is_valid |-> FALSE]
        ELSE IF max_sat <= min_sat THEN [is_valid |-> FALSE]
        ELSE IF max_sat >= total THEN [is_valid |-> FALSE]
        ELSE IF ~validate_distribution_feasibility(
                     total, count, <<min_sat * 10>>, 10).is_feasible
             THEN [is_valid |-> FALSE]
        ELSE IF max_total < total THEN [is_valid |-> FALSE]
        ELSE [is_valid |-> TRUE]

\* -------------------------------------------------- create_address_batches
RECURSIVE Perms(_)
\* the orders random.shuffle can leave a list in
Perms(S) ==
    IF S = {} THEN {<<>>}
    ELSE UNION {{<<x>> \o p : p \in Perms(S \ {x})} : x \in S}

\* list(zip(addresses, amounts)): zip stops at the shorter list
zip(as, ms) == [i \in 1..Min(Len(as), Len(ms)) |-> <<as[i], ms[i]>>]

\* mutant: only a shorter address list is refused
lengths_differ_one_sided(as, ms) == Len(as) < Len(ms)

\* len(addresses) != len(amounts)
lengths_differ(as, ms) == Len(as) # Len(ms)

\* Decimal(str(0.6 + (random.random() * 0.35))), in thousandths
PrivacyFactors ==
    {f \in PRIVACY_MIN..(PRIVACY_MIN + PRIVACY_SPAN) :
        \/ (f - PRIVACY_MIN) % FactorStride = 0
        \/ f = PRIVACY_MIN + PRIVACY_SPAN}

\* mutant: a batch is closed at half its target
should_start_new_batch_half_target(n_current, current_total, amount, target, max_bsv) ==
    LET would_exceed_target == (current_total + amount) * 2000 > target
        would_exceed_max == current_total + amount > max_bsv
    IN  n_current > 0 /\ (would_exceed_target \/ would_exceed_max)

\* mutant: the item alone is compared, not the batch total with it
should_start_new_batch_item_only(n_current, current_total, amount, target, max_bsv) ==
    n_current > 0 /\ (amount * 1000 > target \/ amount > max_bsv)

\* current_batch_total, amount and max_bsv in satoshis, target in thousandths
should_start_new_batch(n_current, current_total, amount, target, max_bsv) ==
    LET would_exceed_target == (current_total + amount) * 1000 > target
        would_exceed_max == current_total + amount > max_bsv
    IN  n_current > 0 /\ (would_exceed_target \/ would_exceed_max)

\* mutant: batches numbered from 0
batch_record_zero_based(number, as, ms, total) ==
    [batch_number |-> number - 1, addresses |-> as, amounts |-> ms,
     total_amount |-> total, address_count |-> Len(as)]

\* the batch dictionary appended to `batches`
batch_record(number, as, ms, total) ==
    [batch_number |-> number, addresses |-> as, amounts |-> ms,
     total_amount |-> total, address_count |-> Len(as)]

\* mutant: an item is put in front of its batch
add_to_batch_prepend(current, item, start_new) ==
    IF start_new THEN <<item>> ELSE <<item>> \o current

\* mutant: the item that closes a batch is not carried into the new one
add_to_batch_drop(current, item, start_new) ==
    IF start_new THEN <<>> ELSE Append(current, item)

\* a current_batch_* list after the item is handled: reset on a new batch,
\* then the append
add_to_batch(current, item, start_new) ==
    IF start_new THEN <<item>> ELSE Append(current, item)

\* --------------------------------------------- analyze_distribution_quality
\* raised: min() of an empty list, the division by a zero average, the
\* division by len(amounts) - 1 = 0.  bound_compliance_percent is
\* within_bounds / compared * 100; the standard deviation and the variation
\* coefficient need a square root and are left out.
analyze_distribution_quality(am, min_bound, max_bound, total_u, u) ==
    LET n == Len(am)
    IN  IF n = 0 \/ SumSeq(am) = 0 \/ n - 1 = 0
        THEN [raised |-> TRUE, metrics |-> <<>>]
        ELSE [raised |-> FALSE,
              metrics |-> <<[actual_min |-> CHOOSE a \in {am[i] : i \in 1..n} :
                                              \A i \in 1..n : a <= am[i],
                             actual_max |-> CHOOSE a \in {am[i] : i \in 1..n} :
                                              \A i \in 1..n : a >= am[i],
                             excessive_last_address |-> am[n] * 10 > max_bound * 12,
                             within_bounds |->
                                 Cardinality({i \in 1..(n - 1) :
                                     min_bound <= am[i] /\ am[i] <= max_bound}),
                             compared |-> n - 1,
                             total_distributed |-> SumSeq(am),
                             distribution_accuracy |->
                                 SumSeq(am) - total_u < u /\ total_u - SumSeq(am) < u]>>]

\* ------------------------------------------------------ derivation sessions
\* an index i is held as i - IndexBase
IndexBase == 2 ^ 30

Index(i) == i - IndexBase

\* MAX_DERIVATION_INDEX * DERIVATION_WARNING_THRESHOLD, rounded down
WarningLevel ==
    (MAX_DERIVATION_INDEX \div 100) * DERIVATION_WARNING_THRESHOLD
        + ((MAX_DERIVATION_INDEX % 100) * DERIVATION_WARNING_THRESHOLD) \div 100

\* int(sha256(xpub_str).hexdigest(), 16) % 1000000
get_xpub_fingerprint(x) == x % FINGERPRINT_MODULUS

\* the state json.dump writes
save_derivation_state(fingerprint, last, path) ==
    <<[xpub_fingerprint |-> fingerprint, last_index |-> last, base_path |-> path]>>

\* state is the content of the file, <<>> when load_derivation_state gives None
check_previous_state(state, x, path) ==
    IF /\ state # <<>>
       /\ state[1].xpub_fingerprint = get_xpub_fingerprint(x)
       /\ state[1].base_path = path
    THEN [can_continue |-> TRUE, last_index |-> state[1].last_index]
    ELSE [can_continue |-> FALSE, last_index |-> Index(0)]

\* choice is the answer to "Do you want to continue from the last index?"
get_starting_index(state, x, path, choice) ==
    LET state_info == check_previous_state(state, x, path)
    IN  IF state_info.can_continue /\ choice = "y"
        THEN state_info.last_index + 1
        ELSE Index(0)

\* confirm is the answer to "Continue anyway?"
validate_derivation_limits(start, n, confirm) ==
    LET end_index == start + n - 1
    IN  IF end_index > Index(MAX_DERIVATION_INDEX) THEN FALSE
        ELSE IF end_index > Index(WarningLevel) THEN confirm = "y"
        ELSE TRUE

\* xpub strings for which Xpub(xpub_str) raises
MalformedXpubs == {0}

\* base paths all of whose components int() accepts
NumericPaths == {"0", "1"}

\* mutant: the state is saved for the requested range, derived or not
derive_addresses_saves_request(x, n, path, start, confirm, state, bad) ==
    IF ~validate_derivation_limits(start, n, confirm)
    THEN [result |-> "None", indices |-> <<>>, state_file |-> state]
    ELSE IF x \in MalformedXpubs \/ path \notin NumericPaths
    THEN [result |-> "None", indices |-> <<>>,
          state_file |-> save_derivation_state(get_xpub_fingerprint(x),
                                               start + n - 1, path)]
    ELSE LET derivable(j) == <<x, path, j>> \notin bad
             idxs == SelectSeq([i \in 1..n |-> start + i - 1], derivable)
         IN  [result |-> "list", indices |-> idxs,
              state_file |-> save_derivation_state(get_xpub_fingerprint(x),
                                                   start + n - 1, path)]

\* result "None" or "list"; indices are the indices of the addresses
\* returned; state_file is the file after the call
derive_addresses(x, n, path, start, confirm, state, bad) ==
    IF ~validate_derivation_limits(start, n, confirm)
    THEN [result |-> "None", indices |-> <<>>, state_file |-> state]
    ELSE IF x \in MalformedXpubs
    THEN \* Xpub(xpub_str) raises, caught at line 120
         [result |-> "None", indices |-> <<>>, state_file |-> state]
    ELSE IF path \notin NumericPaths
    THEN [result |-> "None", indices |-> <<>>, state_file |-> state]
    ELSE LET derivable(j) == <<x, path, j>> \notin bad
             idxs == SelectSeq([i \in 1..n |-> start + i - 1], derivable)
         IN  [result |-> "list", indices |-> idxs,
              state_file |->
                  IF idxs # <<>>
                  THEN save_derivation_state(get_xpub_fingerprint(x),
                                             idxs[Len(idxs)], path)
                  ELSE state]

\* -------------------------------------------------------------- the calls
Xpubs == {0, 1, 1000001}

BasePaths == {"0", "1", "x"}

\* state files left by earlier use: none, or one close to the limit
StateFiles ==
    {<<>>, save_derivation_state(get_xpub_fingerprint(1),
                                 Index(MAX_DERIVATION_INDEX - LimitGap), "0")}

Totals == {k * TotalStride : k \in 1..MaxTotalSteps}

ArgAmounts == {k * ArgStride : k \in 0..MaxArgSteps}

BatchAmountLists == UNION {[1..n -> 1..MaxBatchAmount] : n \in 0..MaxItems}

Init ==
    /\ op \in {"equal", "random", "random_optimal", "create_address_batches",
                "main",
                "calculate_optimal_address_count",
                "validate_distribution_feasibility",
                "calculate_optimal_random_bounds",
                "validate_distribution_params"}
    /\ pc = "start"
    /\ total_amount \in IF op \in {"create_address_batches", "main"}
                        THEN {0} ELSE Totals
    /\ address_count \in
          IF op \in {"create_address_batches", "calculate_optimal_address_count",
                     "main"}
          THEN {0} ELSE 1..MaxCount
    /\ arg_min \in IF op \in {"random", "validate_distribution_params"}
                   THEN ArgAmounts ELSE {0}
    /\ arg_max \in IF op \in {"random", "validate_distribution_params"}
                   THEN ArgAmounts ELSE {0}
    /\ arg_max_addresses \in IF op = "calculate_optimal_address_count"
                         THEN {<<>>} \cup {<<n>> : n \in 1..MaxCount}
                         ELSE {<<>>}
    /\ arg_min_amount \in IF op = "validate_distribution_feasibility"
                          THEN {<<>>} \cup {<<m>> : m \in ArgAmounts}
                          ELSE {<<>>}
    /\ is_ok = FALSE
    /\ units = 0
    /\ actual_count = 0
    /\ min_amount = 0
    /\ max_amount = 0
    /\ amounts = <<>>
    /\ remaining = 0
    /\ batch_amounts \in IF op = "create_address_batches"
                         THEN BatchAmountLists ELSE {<<>>}
    /\ addresses \in IF op = "create_address_batches"
                     THEN {[i \in 1..n |-> i] :
                             n \in {Len(batch_amounts), MaxItems}}
                     ELSE {<<>>}
    /\ max_bsv_per_batch \in IF op = "create_address_batches"
                             THEN {BatchCeiling, 2 * BatchCeiling} ELSE {0}
    /\ randomize \in IF op = "create_address_batches" THEN BOOLEAN ELSE {FALSE}
    /\ combined_data = <<>>
    /\ position = 0
    /\ batches = <<>>
    /\ current_batch_addresses = <<>>
    /\ current_batch_amounts = <<>>
    /\ current_batch_total = 0
    /\ batch_number = 0
    /\ current_target_size = 0
    /\ quality = <<>>
    /\ state_file \in IF op = "main" THEN StateFiles ELSE {<<>>}
    /\ bad_children \in IF op = "main"
                        THEN {{}, {<<1, "1", Index(1)>>}} ELSE {{}}
    /\ xpub_str \in IF op = "main" THEN Xpubs ELSE {0}
    /\ derive_count \in IF op = "main" THEN 1..MaxDeriveCount ELSE {0}
    /\ base_path \in IF op = "main" THEN BasePaths ELSE {""}
    /\ start_index = Index(0)
    /\ derive_result = "pending"
    /\ new_indices = <<>>
    /\ derived = IF state_file = <<>> THEN {}
                 ELSE {<<1, state_file[1].base_path, state_file[1].last_index>>}
    /\ rederived = FALSE
    /\ declined = FALSE
    /\ sessions = IF op = "main" THEN 1 ELSE 0

args == <<op, total_amount, address_count, arg_min, arg_max, batchargs, batchlocals,
          fnargs, quality, sessionvars, is_ok>>

\* distribute_amounts_equal, the whole call
DistributeEqual ==
    /\ pc = "start" /\ op = "equal"
    /\ LET c == equal_resolve(total_amount, address_count)
       IN  /\ actual_count' = c
           /\ IF c = 0
              THEN \* total_amount / actual_count raises DivisionByZero
                   /\ pc' = "raised"
                   /\ UNCHANGED <<units, amounts>>
              ELSE /\ pc' = "done"
                   /\ units' = Units(c)
                   /\ amounts' = equal_amounts(total_amount, c)
    /\ UNCHANGED <<args, min_amount, max_amount, remaining>>

\* distribute_amounts_random up to the allocation loop
RandomStart ==
    /\ pc = "start" /\ op = "random"
    /\ LET c == random_resolve(total_amount, address_count, arg_min)
       IN  /\ actual_count' = c
           /\ IF c = 0
              THEN \* avg_amount = total_amount / actual_count raises
                   /\ pc' = "raised"
                   /\ UNCHANGED <<units, min_amount, max_amount, remaining>>
              ELSE /\ pc' = "loop"
                   /\ units' = Units(c)
                   /\ min_amount' = Max(arg_min * Units(c),
                                        get_minimum_viable_amount(Units(c)))
                   /\ max_amount' = random_max_amount(total_amount, c, arg_max)
                   /\ remaining' = total_amount * Units(c)
    /\ UNCHANGED <<args, amounts>>

\* one iteration of `for i in range(actual_count - 1)`
RandomAllocate ==
    /\ pc = "loop" /\ op = "random"
    /\ Len(amounts) < actual_count - 1
    /\ \E k \in 0..FracSteps :
         LET amount == random_loop_amount(remaining, min_amount, max_amount,
                                          actual_count - Len(amounts) - 1, k, units)
         IN  /\ amounts' = Append(amounts, amount)
             /\ remaining' = remaining - amount
    /\ UNCHANGED <<args, pc, units, actual_count, min_amount, max_amount>>

\* after the loop: the last address, the reclaim, the return
RandomFinish ==
    /\ pc = "loop" /\ op = "random"
    /\ Len(amounts) = actual_count - 1
    /\ amounts' = random_finish(amounts, remaining, min_amount, units)
    /\ pc' = "done"
    /\ UNCHANGED <<args, units, actual_count, min_amount, max_amount, remaining>>

\* distribute_amounts_random_optimal up to the loop of
\* distribute_amounts_random_smart
OptimalStart ==
    /\ pc = "start" /\ op = "random_optimal"
    /\ LET b == calculate_optimal_random_bounds(total_amount, address_count)
           u == Units(b.feasible_address_count)
           c == smart_resolve(total_amount, b.feasible_address_count,
                              b.min_amount, u)
       IN  IF b.raised
           THEN /\ pc' = "raised"
                /\ actual_count' = b.feasible_address_count
                /\ UNCHANGED <<units, min_amount, max_amount, remaining>>
           ELSE /\ units' = u
                /\ actual_count' = c
                /\ min_amount' = Max(b.min_amount, get_minimum_viable_amount(u))
                /\ max_amount' = b.max_amount
                /\ remaining' = total_amount * u
                \* with no address the loop builds [] and min(amounts) raises
                /\ pc' = IF c = 0 THEN "raised" ELSE "loop"
    /\ UNCHANGED <<args, amounts>>

\* one iteration of `for i in range(actual_count)` with remaining_addresses > 1
SmartAllocate ==
    /\ pc = "loop" /\ op = "random_optimal"
    /\ actual_count - Len(amounts) > 1
    /\ \E k \in 0..FracSteps :
         LET amount == smart_loop_amount(remaining, min_amount, max_amount,
                                         actual_count - Len(amounts), k, units)
         IN  /\ amounts' = Append(amounts, amount)
             /\ remaining' = remaining - amount
    /\ UNCHANGED <<args, pc, units, actual_count, min_amount, max_amount>>

\* the iteration with remaining_addresses = 1, then the return
SmartFinish ==
    /\ pc = "loop" /\ op = "random_optimal"
    /\ actual_count - Len(amounts) = 1
    /\ amounts' = Append(amounts, smart_final_amount(remaining, units))
    /\ pc' = "done"
    /\ UNCHANGED <<args, units, actual_count, min_amount, max_amount, remaining>>

\* create_address_batches up to the walk: the length check, zip, shuffle
BatchStart ==
    /\ pc = "start" /\ op = "create_address_batches"
    /\ IF lengths_differ(addresses, batch_amounts)
       THEN \* raise ValueError
            /\ pc' = "raised"
            /\ UNCHANGED <<combined_data, batch_number>>
       ELSE /\ pc' = "loop"
            /\ batch_number' = 1
            /\ combined_data' \in
                 IF randomize
                 THEN {[i \in 1..Len(p) |-> zip(addresses, batch_amounts)[p[i]]] :
                         p \in Perms(1..Len(zip(addresses, batch_amounts)))}
                 ELSE {zip(addresses, batch_amounts)}
    /\ UNCHANGED <<op, distvars, batchargs, fnargs, quality, sessionvars, is_ok, position, batches,
                   current_batch_addresses, current_batch_amounts,
                   current_batch_total, current_target_size>>

\* one iteration of `for address, amount in combined_data`
BatchWalk ==
    /\ pc = "loop" /\ op = "create_address_batches"
    /\ position < Len(combined_data)
    /\ LET address == combined_data[position + 1][1]
           amount == combined_data[position + 1][2]
           first == Len(current_batch_addresses) = 0
       IN  \E privacy_factor \in PrivacyFactors :
             LET drawn == max_bsv_per_batch * privacy_factor
                 \* the target the tests of this iteration read
                 target == IF first THEN drawn ELSE current_target_size
                 start_new == should_start_new_batch(
                                  Len(current_batch_addresses), current_batch_total,
                                  amount, target, max_bsv_per_batch)
             IN  /\ current_target_size' =
                       IF first \/ start_new THEN drawn ELSE current_target_size
                 /\ batches' =
                       IF start_new
                       THEN Append(batches,
                                   batch_record(batch_number, current_batch_addresses,
                                                current_batch_amounts,
                                                current_batch_total))
                       ELSE batches
                 /\ batch_number' = IF start_new THEN batch_number + 1 ELSE batch_number
                 /\ current_batch_addresses' =
                       add_to_batch(current_batch_addresses, address, start_new)
                 /\ current_batch_amounts' =
                       add_to_batch(current_batch_amounts, amount, start_new)
                 /\ current_batch_total' =
                       (IF start_new THEN 0 ELSE current_batch_total) + amount
    /\ position' = position + 1
    /\ UNCHANGED <<op, pc, distvars, batchargs, fnargs, quality, sessionvars, is_ok, combined_data>>

\* after the walk: the final batch, the return
BatchFinish ==
    /\ pc = "loop" /\ op = "create_address_batches"
    /\ position = Len(combined_data)
    /\ batches' =
          IF current_batch_addresses # <<>>
          THEN Append(batches,
                      batch_record(batch_number, current_batch_addresses,
                                   current_batch_amounts, current_batch_total))
          ELSE batches
    /\ pc' = "done"
    /\ UNCHANGED <<op, distvars, batchargs, fnargs, quality, sessionvars, is_ok, combined_data, position,
                   current_batch_addresses, current_batch_amounts,
                   current_batch_total, batch_number, current_target_size>>

\* calculate_optimal_address_count, the whole call
CalculateOptimalAddressCount ==
    /\ pc = "start" /\ op = "calculate_optimal_address_count"
    /\ actual_count' = calculate_optimal_address_count(total_amount, arg_max_addresses)
    /\ pc' = "done"
    /\ UNCHANGED <<args, units, min_amount, max_amount, amounts, remaining>>

\* validate_distribution_feasibility, the whole call
ValidateFeasibility ==
    /\ pc = "start" /\ op = "validate_distribution_feasibility"
    /\ LET v == validate_distribution_feasibility(
                    total_amount, address_count,
                    IF arg_min_amount = <<>> THEN <<>> ELSE <<arg_min_amount[1] * 10>>,
                    10)
       IN  /\ is_ok' = v.is_feasible
           /\ actual_count' = v.suggested_count
    /\ pc' = "done"
    /\ UNCHANGED <<op, total_amount, address_count, arg_min, arg_max, batchargs,
                   batchlocals, fnargs, quality, sessionvars, units, min_amount, max_amount, amounts,
                   remaining>>

\* calculate_optimal_random_bounds, the whole call
CalculateBounds ==
    /\ pc = "start" /\ op = "calculate_optimal_random_bounds"
    /\ LET b == calculate_optimal_random_bounds(total_amount, address_count)
       IN  /\ actual_count' = b.feasible_address_count
           /\ IF b.raised
              THEN /\ pc' = "raised"
                   /\ UNCHANGED <<units, min_amount, max_amount>>
              ELSE /\ pc' = "done"
                   /\ units' = Units(b.feasible_address_count)
                   /\ min_amount' = b.min_amount
                   /\ max_amount' = b.max_amount
    /\ UNCHANGED <<args, amounts, remaining>>

\* validate_distribution_params, the whole call
ValidateParams ==
    /\ pc = "start" /\ op = "validate_distribution_params"
    /\ is_ok' = validate_distribution_params(total_amount, address_count,
                                             arg_min, arg_max).is_valid
    /\ pc' = "done"
    /\ UNCHANGED <<op, total_amount, address_count, arg_min, arg_max, batchargs,
                   batchlocals, fnargs, quality, sessionvars, units, actual_count, min_amount, max_amount,
                   amounts, remaining>>

\* display_distribution_quality_analysis: the metrics of a smart plan, with
\* sum(amounts) passed as the total
AnalyzeQuality ==
    /\ pc = "done" /\ op = "random_optimal"
    /\ LET q == analyze_distribution_quality(amounts, min_amount, max_amount,
                                             SumSeq(amounts), units)
       IN  IF q.raised
           THEN pc' = "analysis_raised" /\ UNCHANGED quality
           ELSE pc' = "analyzed" /\ quality' = q.metrics
    /\ UNCHANGED <<op, distvars, batchargs, batchlocals, fnargs, sessionvars, is_ok>>

\* main(), step 4: get_starting_index
GetStartingIndex ==
    /\ pc = "start" /\ op = "main"
    /\ \E choice \in {"y", "n"} :
         /\ start_index' = get_starting_index(state_file, xpub_str, base_path, choice)
         /\ declined' = (declined \/
                (check_previous_state(state_file, xpub_str, base_path).can_continue
                    /\ choice # "y"))
    /\ pc' = "derive"
    /\ UNCHANGED <<op, distvars, batchargs, batchlocals, fnargs, quality, is_ok,
                   state_file, bad_children, xpub_str, derive_count, base_path,
                   derive_result, new_indices, derived, rederived, sessions>>

\* main(), step 5: derive_addresses, the whole call
DeriveAddresses ==
    /\ pc = "derive" /\ op = "main"
    /\ \E confirm \in {"y", "n"} :
         LET r == derive_addresses(xpub_str, derive_count, base_path, start_index,
                                   confirm, state_file, bad_children)
             now == {<<xpub_str, base_path, r.indices[i]>> : i \in 1..Len(r.indices)}
         IN  /\ derive_result' = r.result
             /\ new_indices' = r.indices
             /\ state_file' = r.state_file
             /\ derived' = derived \cup now
             /\ rederived' = (rederived \/ now \cap derived # {})
    /\ pc' = "done"
    /\ UNCHANGED <<op, distvars, batchargs, batchlocals, fnargs, quality, is_ok,
                   bad_children, xpub_str, derive_count, base_path, start_index,
                   declined, sessions>>

\* the program is run again: the state file is what the last run left
NextSession ==
    /\ pc = "done" /\ op = "main"
    /\ sessions < MaxSessions
    /\ sessions' = sessions + 1
    /\ xpub_str' \in Xpubs
    /\ derive_count' \in 1..MaxDeriveCount
    /\ base_path' \in BasePaths
    /\ start_index' = Index(0)
    /\ derive_result' = "pending"
    /\ new_indices' = <<>>
    /\ pc' = "start"
    /\ UNCHANGED <<op, distvars, batchargs, batchlocals, fnargs, quality, is_ok,
                   state_file, bad_children, derived, rederived, declined>>

Next ==
    \/ AnalyzeQuality
    \/ GetStartingIndex
    \/ DeriveAddresses
    \/ NextSession
    \/ CalculateOptimalAddressCount
    \/ ValidateFeasibility
    \/ CalculateBounds
    \/ ValidateParams
    \/ DistributeEqual
    \/ RandomStart
    \/ RandomAllocate
    \/ RandomFinish
    \/ OptimalStart
    \/ SmartAllocate
    \/ SmartFinish
    \/ BatchStart
    \/ BatchWalk
    \/ BatchFinish

Spec == Init /\ [][Next]_vars


\* ================================================================ claims
Returned(o) == pc = "done" /\ op = o

Last(s) == s[Len(s)]

Front(s) == SubSeq(s, 1, Len(s) - 1)

\* C1: the amounts distribute_amounts_equal returns sum to the total exactly,
\* whether or not the count was reduced.
C1_EqualExactSum ==
    Returned("equal") => SumSeq(amounts) = total_amount * units

\* a reduced count with a truncation remainder on the first entry
C1_Witness ==
    /\ Returned("equal")
    /\ actual_count < address_count
    /\ actual_count >= 2
    /\ amounts[1] > amounts[2]

\* C2: the amounts distribute_amounts_random_optimal returns sum to the total
\* exactly for every sequence of random fractions: the last entry is the
\* residual left by the earlier entries, never min_viable put in its place.
C2_SmartExactSum ==
    Returned("random_optimal") =>
        /\ SumSeq(amounts) = total_amount * units
        /\ Last(amounts) = total_amount * units - SumSeq(Front(amounts))
        /\ Last(amounts) = remaining

\* the tight case: the residual of a plan of three or more is exactly
\* min_viable
C2_Witness ==
    /\ Returned("random_optimal")
    /\ Len(amounts) >= 3
    /\ Last(amounts) = get_minimum_viable_amount(units)
    /\ SumSeq(Front(amounts)) = total_amount * units - remaining

\* C3: the amounts distribute_amounts_random returns sum to the total exactly,
\* also when the count was substituted and when the final entry is below
\* min_viable, so that the reclaim scan runs.
C3_RandomExactSum ==
    Returned("random") => SumSeq(amounts) = total_amount * units

\* a substituted count and a final entry below min_viable
C3_Witness ==
    /\ Returned("random")
    /\ actual_count # address_count
    /\ Len(amounts) >= 2
    /\ remaining < get_minimum_viable_amount(units)

\* C4: distribute_amounts_random returns no negative amount: every entry but
\* the last is at least the dust limit and the last is at least 0.
C4_RandomNoNegative ==
    Returned("random") =>
        /\ \A i \in 1..(Len(amounts) - 1) : amounts[i] >= BSV_DUST_LIMIT * units
        /\ Last(amounts) >= 0

\* C5: every amount of a plan of distribute_amounts_equal or
\* distribute_amounts_random_optimal, the last included, is at least the dust
\* limit.
C5_DustFloor ==
    (Returned("equal") \/ Returned("random_optimal")) =>
        \A i \in 1..Len(amounts) : amounts[i] >= BSV_DUST_LIMIT * units

\* a smart plan with an entry truncated below min_viable, still above dust
C5_Witness ==
    /\ Returned("random_optimal")
    /\ \E i \in 1..Len(amounts) :
         /\ amounts[i] < get_minimum_viable_amount(units)
         /\ amounts[i] >= BSV_DUST_LIMIT * units

\* C6: in distribute_amounts_equal and distribute_amounts_random_optimal the
\* used count is min(requested count, floor(total / min_viable)): it never
\* exceeds the request, equals it when the request is feasible, is otherwise
\* the largest count the total affords, and is the length of the list.
C6_UsedCount ==
    (Returned("equal") \/ Returned("random_optimal")) =>
        /\ actual_count <= address_count
        /\ actual_count * BSV_DUST_LIMIT * 11 <= total_amount * 10
        /\ \/ actual_count = address_count
           \/ (actual_count + 1) * BSV_DUST_LIMIT * 11 > total_amount * 10
        /\ Len(amounts) = actual_count

\* a smart plan over fewer addresses than requested
C6_Witness ==
    /\ Returned("random_optimal")
    /\ actual_count < address_count
    /\ actual_count >= 2
    /\ Len(amounts) = actual_count

\* C7: the count distribute_amounts_random uses is at most the requested
\* count, and the list has that many entries.
C7_RandomUsedCount ==
    Returned("random") =>
        /\ actual_count <= address_count
        /\ Len(amounts) = actual_count

\* C8: none of the three distribution entry points raises.
C8_NeverRaises ==
    op \in {"equal", "random", "random_optimal"} => pc # "raised"

\* C9: every batch create_address_batches returns has a total of at most
\* max_bsv_per_batch, unless it holds exactly one item whose own amount
\* exceeds max_bsv_per_batch.
C9_BatchCeiling ==
    Returned("create_address_batches") =>
        \A b \in 1..Len(batches) :
            \/ batches[b].total_amount <= max_bsv_per_batch
            \/ /\ Len(batches[b].amounts) = 1
               /\ batches[b].amounts[1] > max_bsv_per_batch

\* shuffled input giving a batch of several items and a batch of one item
\* above the ceiling
C9_Witness ==
    /\ Returned("create_address_batches")
    /\ randomize
    /\ \E b \in 1..Len(batches) : Len(batches[b].amounts) >= 2
    /\ \E b \in 1..Len(batches) :
         /\ Len(batches[b].amounts) = 1
         /\ batches[b].total_amount > max_bsv_per_batch

RECURSIVE BatchPairs(_)
\* the (address, amount) pairs of the batches, in order
BatchPairs(bs) ==
    IF bs = <<>> THEN <<>>
    ELSE [i \in 1..Len(bs[1].addresses) |-> <<bs[1].addresses[i], bs[1].amounts[i]>>]
         \o BatchPairs(Tail(bs))

RECURSIVE BatchTotals(_)
BatchTotals(bs) ==
    IF bs = <<>> THEN 0 ELSE bs[1].total_amount + BatchTotals(Tail(bs))

Occurrences(s, x) == Cardinality({i \in 1..Len(s) : s[i] = x})

InputPairs == [i \in 1..Len(addresses) |-> <<addresses[i], batch_amounts[i]>>]

\* C10: create_address_batches loses and duplicates nothing: the multiset of
\* (address, amount) pairs over the batches is that of the input, and the
\* batch totals sum to the sum of the input amounts.
C10_BatchComplete ==
    Returned("create_address_batches") =>
        /\ Len(BatchPairs(batches)) = Len(InputPairs)
        /\ \A i \in 1..Len(InputPairs) :
             Occurrences(BatchPairs(batches), InputPairs[i])
                 = Occurrences(InputPairs, InputPairs[i])
        /\ BatchTotals(batches) = SumSeq(batch_amounts)

\* a shuffle that changed the order, walked into at least two batches
C10_Witness ==
    /\ Returned("create_address_batches")
    /\ randomize
    /\ combined_data # InputPairs
    /\ Len(batches) >= 2
    /\ Len(BatchPairs(batches)) = MaxItems


\* C11: in the list create_address_batches returns the k-th batch has
\* batch_number k, no batch is empty, address_count is the number of its
\* addresses and of its amounts, total_amount is the sum of its amounts; an
\* empty input gives no batch.
C11_BatchRecords ==
    Returned("create_address_batches") =>
        /\ \A k \in 1..Len(batches) :
             /\ batches[k].batch_number = k
             /\ batches[k].addresses # <<>>
             /\ batches[k].address_count = Len(batches[k].addresses)
             /\ batches[k].address_count = Len(batches[k].amounts)
             /\ batches[k].total_amount = SumSeq(batches[k].amounts)
        /\ (batch_amounts = <<>> => batches = <<>>)

\* several batches, one of them with several items
C11_Witness ==
    /\ Returned("create_address_batches")
    /\ Len(batches) >= 2
    /\ \E k \in 1..Len(batches) : batches[k].address_count >= 2

\* C12: with lists of different lengths create_address_batches raises before
\* any batch is built; it never walks or returns a truncated pairing.
C12_LengthMismatchRaises ==
    (op = "create_address_batches" /\ Len(addresses) # Len(batch_amounts)) =>
        /\ pc \in {"start", "raised"}
        /\ batches = <<>>
        /\ combined_data = <<>>

\* the call has raised on a longer address list
C12_Witness ==
    /\ op = "create_address_batches"
    /\ pc = "raised"
    /\ Len(addresses) > Len(batch_amounts)
    /\ Len(batch_amounts) >= 1

\* effective minimum of a validate_distribution_feasibility call, in tenths
\* of a satoshi, from the arguments
EffectiveMinTenths ==
    IF arg_min_amount = <<>>
    THEN BSV_DUST_LIMIT * 11
    ELSE Max(arg_min_amount[1] * 10, BSV_DUST_LIMIT * 11)

\* C13: validate_distribution_feasibility never raises; it reports infeasible
\* exactly when max(min_amount, min_viable) x count > total; a feasible
\* request keeps its count, an infeasible one is given floor(total /
\* min_viable), whatever the requested count.
C13_Feasibility ==
    /\ op = "validate_distribution_feasibility" => pc # "raised"
    /\ Returned("validate_distribution_feasibility") =>
         /\ is_ok <=> ~(EffectiveMinTenths * address_count > total_amount * 10)
         /\ is_ok => actual_count = address_count
         /\ ~is_ok =>
              /\ actual_count * BSV_DUST_LIMIT * 11 <= total_amount * 10
              /\ (actual_count + 1) * BSV_DUST_LIMIT * 11 > total_amount * 10

\* infeasible only because of the caller's minimum
C13_Witness ==
    /\ Returned("validate_distribution_feasibility")
    /\ ~is_ok
    /\ arg_min_amount # <<>>
    /\ BSV_DUST_LIMIT * 11 * address_count <= total_amount * 10

\* C14: the count suggested for an infeasible request is the largest n with
\* effective_min x n <= total, effective_min being the minimum the check used.
C14_SuggestedLargest ==
    (Returned("validate_distribution_feasibility") /\ ~is_ok) =>
        /\ EffectiveMinTenths * actual_count <= total_amount * 10
        /\ EffectiveMinTenths * (actual_count + 1) > total_amount * 10

\* floor(total / min_viable) from the arguments
FloorCount == (total_amount * 10) \div (BSV_DUST_LIMIT * 11)

C16_EqualShape ==
    Returned("equal") =>
        LET share == (total_amount \div actual_count) * units
            remainder == total_amount * units - actual_count * share
        IN  /\ Len(amounts) = actual_count
            /\ \A i \in 2..Len(amounts) : amounts[i] = share
            /\ amounts[1] = share + remainder
            /\ remainder >= 0
            /\ remainder < actual_count * units

\* four recipients, one satoshi of remainder on the first
C16_Witness ==
    /\ Returned("equal")
    /\ actual_count = 4
    /\ amounts[1] = amounts[2] + units
    /\ amounts[2] = amounts[4]

\* well-formed feasible arguments of distribute_amounts_random
WellFormedRandom ==
    /\ BSV_DUST_LIMIT * 11 <= arg_min * 10
    /\ arg_min < arg_max
    /\ arg_min * address_count <= total_amount

\* C17: distribute_amounts_random with whole-satoshi arguments, min_viable <=
\* min_amount < max_amount and min_amount x count <= total keeps the count,
\* draws each of the first count - 1 amounts in [min_amount, max_amount] for
\* every sequence of random fractions, and gives the last one total minus the
\* sum of the others.
C17_RandomWellFormed ==
    (Returned("random") /\ WellFormedRandom) =>
        /\ actual_count = address_count
        /\ Len(amounts) = address_count
        /\ \A i \in 1..(Len(amounts) - 1) :
             /\ arg_min * units <= amounts[i]
             /\ amounts[i] <= arg_max * units
        /\ Last(amounts) = total_amount * units - SumSeq(Front(amounts))

\* three or more recipients, one of them strictly inside the range
C17_Witness ==
    /\ Returned("random")
    /\ WellFormedRandom
    /\ address_count >= 3
    /\ \E i \in 1..(Len(amounts) - 1) :
         arg_min * units < amounts[i] /\ amounts[i] < arg_max * units

\* C18: validate_distribution_params never raises, answers False whenever
\* max_amount <= min_amount or max_amount >= total, and answers True exactly
\* when min_viable <= min_amount < max_amount < total and min_amount x count
\* <= total <= max_amount x count; the bounds it was given are not changed.
C18_ValidateParams ==
    /\ op = "validate_distribution_params" =>
         /\ pc # "raised"
         /\ min_amount = 0
         /\ max_amount = 0
    /\ Returned("validate_distribution_params") =>
         /\ (arg_max <= arg_min \/ arg_max >= total_amount) => ~is_ok
         /\ is_ok <=> /\ BSV_DUST_LIMIT * 11 <= arg_min * 10
                      /\ arg_min < arg_max
                      /\ arg_max < total_amount
                      /\ arg_min * address_count <= total_amount
                      /\ total_amount <= arg_max * address_count

\* a request accepted for several recipients
C18_Witness ==
    /\ Returned("validate_distribution_params")
    /\ is_ok
    /\ address_count >= 2

\* caller bounds that validate_distribution_params rejects as malformed
InvalidBounds == arg_max <= arg_min \/ arg_max >= total_amount

C20_OptimalBounds ==
    Returned("calculate_optimal_random_bounds") =>
        /\ actual_count = Min(address_count, FloorCount)
        /\ actual_count >= 1
        /\ get_minimum_viable_amount(units) <= min_amount
        /\ min_amount * actual_count <= total_amount * units
        /\ total_amount * units <= max_amount * actual_count
        /\ max_amount * 10 > min_amount * 11

\* a reduced count, with the minimum above the min_viable floor
C20_Witness ==
    /\ Returned("calculate_optimal_random_bounds")
    /\ actual_count < address_count
    /\ actual_count >= 2
    /\ max_amount > min_amount

\* C21: in every plan of distribute_amounts_random_optimal over two or more
\* recipients, whatever the random fractions, the final amount is at most 1.2
\* x the maximum bound used.
C21_NoExcessiveLast ==
    /\ (Returned("random_optimal") /\ actual_count >= 2) =>
         Last(amounts) * 10 <= max_amount * 12
    /\ (op = "random_optimal" /\ pc = "analyzed") =>
         ~quality[1].excessive_last_address

\* C22: every amount the three distribution entry points return is a whole
\* number of satoshis, the entries assigned on the branch actual_max <=
\* actual_min included.
C22_WholeSatoshis ==
    (Returned("equal") \/ Returned("random") \/ Returned("random_optimal")) =>
        \A i \in 1..Len(amounts) : amounts[i] % units = 0

\* the triples of the session's key derived so far
DerivedOfKey == {t \in derived : t[1] = xpub_str /\ t[2] = base_path}

\* C23: over sessions in which the user always accepts to continue,
\* get_starting_index returns the last index + 1 for a key derived before,
\* and no (xpub, base path, index) is derived twice.
C23_NoRederivation ==
    (op = "main" /\ ~declined) =>
        /\ ~rederived
        /\ (pc = "derive" /\ DerivedOfKey # {}) =>
             \E t \in DerivedOfKey :
                 /\ \A t2 \in DerivedOfKey : t2[3] <= t[3]
                 /\ start_index = t[3] + 1

\* C24 as stated: distribute_amounts_random replaces max_amount by 1.8 x
\* average exactly when the average total / used count exceeds 2 x max_amount.
C24_TightenedWhenAverageAboveTwiceMax ==
    Returned("random") =>
        IF total_amount > 2 * arg_max * actual_count
        THEN max_amount * 5 * actual_count = 9 * total_amount * units
        ELSE max_amount = arg_max * units

\* C24 amended: distribute_amounts_random replaces max_amount by 1.8 x average
\* exactly when max_amount exceeds 2 x the average total / used count, and
\* otherwise allocates with the caller's max_amount.
C24_TightenedWhenMaxAboveTwiceAverage ==
    (op = "random" /\ pc \in {"loop", "done"}) =>
        IF arg_max * actual_count > 2 * total_amount
        THEN max_amount * 5 * actual_count = 9 * total_amount * units
        ELSE max_amount = arg_max * units

\* well-formed bounds below the total, tightened for three or more recipients
C24_Witness ==
    /\ Returned("random")
    /\ WellFormedRandom
    /\ arg_max < total_amount
    /\ max_amount < arg_max * units
    /\ actual_count >= 3

\* C25: the backward reclaim of distribute_amounts_random changes nothing:
\* the final entry is the residual; it is >= min_viable whenever min_amount x
\* used count <= total, and when it is below min_viable no earlier entry
\* exceeds min_amount plus the shortfall.
C25_ReclaimIdle ==
    Returned("random") =>
        /\ Last(amounts) = remaining
        /\ remaining = total_amount * units - SumSeq(Front(amounts))
        /\ min_amount * actual_count <= total_amount * units =>
             Last(amounts) >= get_minimum_viable_amount(units)
        /\ Last(amounts) < get_minimum_viable_amount(units) =>
             \A i \in 1..(Len(amounts) - 1) :
                 amounts[i] <= min_amount + (get_minimum_viable_amount(units) - remaining)

\* the scan has run over earlier entries and found no donor
C25_Witness ==
    /\ Returned("random")
    /\ Len(amounts) >= 3
    /\ Last(amounts) < get_minimum_viable_amount(units)
    /\ Last(amounts) >= 0

\* C26: through calculate_optimal_random_bounds none of the corrective passes
\* of _validate_and_adjust_bounds fires: the bounds are max(min_viable, 0.25 x
\* average) and 1.75 x average.
C26_PassesIdle ==
    (\/ Returned("calculate_optimal_random_bounds")
     \/ (op = "random_optimal" /\ pc \in {"loop", "done"})) =>
        /\ min_amount * 4 * actual_count =
             Max(get_minimum_viable_amount(units) * 4 * actual_count,
                 total_amount * units)
        /\ max_amount * 4 * actual_count = 7 * total_amount * units

\* bounds for a kept count of three or more, the minimum at the min_viable
\* floor and above a quarter of the average
C26_Witness ==
    /\ Returned("calculate_optimal_random_bounds")
    /\ actual_count = address_count
    /\ actual_count >= 3
    /\ min_amount = get_minimum_viable_amount(units)
    /\ min_amount * 4 * actual_count > total_amount * units

\* C27: the batches are contiguous runs of the walked sequence, in walk order;
\* without shuffling, the batches' addresses and amounts concatenated in
\* batch_number order are the input lists.
C27_WalkOrder ==
    Returned("create_address_batches") =>
        /\ BatchPairs(batches) = combined_data
        /\ \A k \in 1..(Len(batches) - 1) :
             batches[k].batch_number < batches[k + 1].batch_number
        /\ ~randomize =>
             /\ [i \in 1..Len(BatchPairs(batches)) |-> BatchPairs(batches)[i][1]]
                  = addresses
             /\ [i \in 1..Len(BatchPairs(batches)) |-> BatchPairs(batches)[i][2]]
                  = batch_amounts

\* unshuffled input of different amounts split into a batch of two and another
C27_Witness ==
    /\ Returned("create_address_batches")
    /\ ~randomize
    /\ Len(batches) >= 2
    /\ \E k \in 1..Len(batches) : batches[k].address_count >= 2
    /\ batch_amounts[1] # batch_amounts[2]

\* C28: a batch is closed only when the next item does not fit: for every
\* batch but the last, its total plus the first amount of the next batch
\* exceeds 0.6 x max_bsv_per_batch, whatever targets are drawn.
C28_ClosedWhenFull ==
    Returned("create_address_batches") =>
        \A k \in 1..(Len(batches) - 1) :
            (batches[k].total_amount + batches[k + 1].amounts[1]) * 1000
                > PRIVACY_MIN * max_bsv_per_batch

\* a batch closed by its target although the next item was below the ceiling
C28_Witness ==
    /\ Returned("create_address_batches")
    /\ \E k \in 1..(Len(batches) - 1) :
         /\ batches[k].address_count >= 2
         /\ batches[k].total_amount + batches[k + 1].amounts[1] <= max_bsv_per_batch

\* C29: a derive_addresses call that fails leaves the state file as it was:
\* beyond the maximum index and with a non-numeric path component it returns
\* None, and whenever it returns None or an empty list the file is unchanged;
\* the state is written only when an address was derived, with last_index
\* the index of the last derived address.
C29_FailedDeriveKeepsState ==
    [][(op = "main" /\ pc = "derive") =>
         /\ start_index + derive_count - 1 > Index(MAX_DERIVATION_INDEX) =>
              derive_result' = "None"
         /\ base_path \notin NumericPaths => derive_result' = "None"
         /\ (derive_result' = "None" \/ new_indices' = <<>>) =>
              state_file' = state_file
         /\ state_file' # state_file => new_indices' # <<>>
         /\ new_indices' # <<>> =>
              state_file' = <<[xpub_fingerprint |-> get_xpub_fingerprint(xpub_str),
                               last_index |-> new_indices'[Len(new_indices')],
                               base_path |-> base_path]>>]_vars

\* a call beyond the maximum index that found a state file and returned None
C29_Witness ==
    /\ op = "main" /\ pc = "done"
    /\ start_index + derive_count - 1 > Index(MAX_DERIVATION_INDEX)
    /\ derive_result = "None"
    /\ state_file # <<>>

\* C30: analyze_distribution_quality raises for no plan the engine produces,
\* a plan of one recipient included.
C30_QualityNeverRaises ==
    op = "random_optimal" => pc # "analysis_raised"

====
